---- MODULE Spec2Model ----
(***************************************************************************)
(* Chat room server: the Message frame codec (message.hpp), the Room       *)
(* mediator and the Session connection state machine (chatRoom.hpp/.cpp),  *)
(* and the accept loop.  All handlers run on one io_context thread, so     *)
(* every completion handler is one atomic action.                          *)
(***************************************************************************)
EXTENDS Integers, Sequences, FiniteSets, TLC

\* ------------------------------------------------------------------------
\* Program constants
\* ------------------------------------------------------------------------
maxBytes == 512
header == 4
HistoryLimit == 50

\* ------------------------------------------------------------------------
\* Bounds of the model
\* ------------------------------------------------------------------------
NumSessions == 2
MaxFrames == 2
MaxSends == 3
MaxCalls == 4

Sessions == 1..NumSessions

\* ------------------------------------------------------------------------
\* Bytes
\* ------------------------------------------------------------------------
Digits == {"0", "1", "2", "3", "4", "5", "6", "7", "8", "9"}

DigitVal(c) ==
    CASE c = "0" -> 0 [] c = "1" -> 1 [] c = "2" -> 2 [] c = "3" -> 3
      [] c = "4" -> 4 [] c = "5" -> 5 [] c = "6" -> 6 [] c = "7" -> 7
      [] c = "8" -> 8 [] c = "9" -> 9 [] OTHER -> 0

\* Header bytes a peer may put on the wire in the codec specification.
HeaderAlphabet == {" ", "-", "0", "1", "2", "3", "5", "9", "a"}

\* Body bytes (as their values) a peer of the server specification sends.
Bytes == {0}

\* Headers the peers of the server specification send: one byte, letters
\* only, too large.
InHeaders ==
    { <<" ", " ", " ", "1">>,
      <<"a", "a", "a", "a">>,
      <<"9", "9", "9", "9">> }

BodiesOfLen(n) == [1..n -> Bytes]

\* Lengths of the strings handed to the codec: around each change of the
\* number of digits, the limit and one past it.
TextLengths == {0, 1, 9, 10, 99, 100, 512, 513}

\* The string of n bytes of value c.
Fill(n, c) == [i \in 1..n |-> c]

\* Strings handed to the codec: uniform ones of each length, one mixed.
Texts == {Fill(n, 7) : n \in TextLengths} \cup {<<1, 2, 3>>}

\* No string was handed to the codec yet.
NoText == <<-1>>

\* bodyLength_ values a Message object holds before a header is received
\* into it: fresh, or left by an earlier frame.
PriorLengths == {0, 7}

\* Lines the user of the client types: non-empty, up to and past the limit.
ClientTexts == {Fill(n, 7) : n \in {1, 2, 512, 513, 600}}

\* ------------------------------------------------------------------------
\* Message (message.hpp)
\* ------------------------------------------------------------------------
\* std::atoi on the NUL-terminated copy of the header: skip white space,
\* take an optional sign, then accumulate digits up to the first non-digit.
RECURSIVE SkipSpace(_, _)
SkipSpace(h, i) ==
    IF i <= Len(h) /\ h[i] = " " THEN SkipSpace(h, i + 1) ELSE i

RECURSIVE ParseDigits(_, _, _)
ParseDigits(h, i, acc) ==
    IF i <= Len(h) /\ h[i] \in Digits
    THEN ParseDigits(h, i + 1, acc * 10 + DigitVal(h[i]))
    ELSE acc

atoi(h) ==
    LET i == SkipSpace(h, 1)
        signed == i <= Len(h) /\ h[i] \in {"-", "+"}
        neg == i <= Len(h) /\ h[i] = "-"
        v == ParseDigits(h, IF signed THEN i + 1 ELSE i, 0)
    IN IF neg THEN 0 - v ELSE v

\* A Message value: the 4 header bytes of data, bodyLength_, and the bytes
\* written at data + header (getBody reads the first bodyLength_ of them).
DefaultMessage == [hdr |-> <<>>, bodyLength |-> 0, body |-> <<>>]

\* Message::decodeHeader on a Message whose header bytes are m.hdr.
decodeHeaderNoUpperBound(m) ==
    LET header_value == atoi(m.hdr)
    IN IF header_value < 0
       THEN [ok |-> FALSE, msg |-> [m EXCEPT !.bodyLength = 0]]
       ELSE [ok |-> TRUE, msg |-> [m EXCEPT !.bodyLength = header_value]]

decodeHeaderKeepsLength(m) ==
    LET header_value == atoi(m.hdr)
    IN IF header_value < 0 \/ header_value > maxBytes
       THEN [ok |-> FALSE, msg |-> m]
       ELSE [ok |-> TRUE, msg |-> [m EXCEPT !.bodyLength = header_value]]

decodeHeader(m) ==
    LET header_value == atoi(m.hdr)
    IN IF header_value < 0 \/ header_value > maxBytes
       THEN [ok |-> FALSE, msg |-> [m EXCEPT !.bodyLength = 0]]
       ELSE [ok |-> TRUE, msg |-> [m EXCEPT !.bodyLength = header_value]]

\* The decimal digit d as a character.
DigitChar(d) ==
    CASE d = 0 -> "0" [] d = 1 -> "1" [] d = 2 -> "2" [] d = 3 -> "3"
      [] d = 4 -> "4" [] d = 5 -> "5" [] d = 6 -> "6" [] d = 7 -> "7"
      [] d = 8 -> "8" [] d = 9 -> "9"

\* The decimal digits of n >= 0, most significant first.
RECURSIVE DecDigits(_)
DecDigits(n) ==
    IF n < 10 THEN <<DigitChar(n)>>
    ELSE Append(DecDigits(n \div 10), DigitChar(n % 10))

Spaces(k) == [i \in 1..k |-> " "]

\* The first header bytes of what sprintf(temp_header, "%4d", n) writes.
Sprintf4LeftJustified(n) ==
    LET d == DecDigits(n)
    IN SubSeq(d \o Spaces(header), 1, header)

Sprintf4(n) ==
    LET d == DecDigits(n)
        pad == IF Len(d) < header THEN header - Len(d) ELSE 0
    IN SubSeq(Spaces(pad) \o d, 1, header)

\* Message::encodeHeader
encodeHeader(m) == [m EXCEPT !.hdr = Sprintf4(m.bodyLength)]

\* Message::encodeBody: memcpy of bodyLength_ bytes of the string over the
\* body region, bytes past them keep their value.
encodeBody(m, str) ==
    [m EXCEPT !.body = SubSeq(str, 1, m.bodyLength)
                         \o SubSeq(m.body, m.bodyLength + 1, Len(m.body))]

\* Message::setBodyLength: ok is FALSE where it throws std::length_error.
setBodyLengthUnchecked(m, newLength) ==
    [ok |-> TRUE, msg |-> [m EXCEPT !.bodyLength = newLength]]

setBodyLengthAssignsFirst(m, newLength) ==
    [ok |-> newLength <= maxBytes, msg |-> [m EXCEPT !.bodyLength = newLength]]

setBodyLength(m, newLength) ==
    IF newLength > maxBytes
    THEN [ok |-> FALSE, msg |-> m]
    ELSE [ok |-> TRUE, msg |-> [m EXCEPT !.bodyLength = newLength]]

\* Message::setBody: setBodyLength, encodeHeader, encodeBody; the exception
\* of setBodyLength leaves before the two encoders run.
setBody(m, str) ==
    LET r == setBodyLength(m, Len(str))
    IN IF r.ok
       THEN [ok |-> TRUE, msg |-> encodeBody(encodeHeader(r.msg), str)]
       ELSE r

\* Message::Message(const std::string&): the same three calls on a new
\* object; no object exists where the constructor throws.
MessageCtor(str) == setBody(DefaultMessage, str)

\* Message::getBody on a Message whose body region holds at least
\* bodyLength_ written bytes.
getBody(m) == SubSeq(m.body, 1, m.bodyLength)

\* The bytes of data a sender puts on the wire: header + getBodyLength().
WireBytes(m) == [hdr |-> m.hdr, body |-> getBody(m)]

\* ------------------------------------------------------------------------
\* State
\* ------------------------------------------------------------------------
VARIABLES
    participants,      \* Room::participants
    MessageQueue,      \* Room::MessageQueue, the history
    outgoingMessages,  \* Session::outgoingMessages, per session
    writes,            \* per session: frames of the async_write operations in flight
    readOp,            \* per session: "unborn", the async read pending ("header", "body"),
                       \* "none" (no read pending), or "destroyed"
    incomingMessage,   \* Session::incomingMessage, per session
    wire,              \* per session: frames whose transmission on its socket completed
    pendingAccepts,    \* async_accept operations pending on the acceptor
    received,          \* frames whose header the server has accepted so far
    joinReplay,        \* per session: the history Room::join iterated over
    broadcastLog,      \* every frame passed to Room::deliver, in call order
    message,           \* a standalone Message object (codec specification)
    result,            \* what the last codec call on message returned
    text,              \* the string last passed to the constructor or setBody
    messageText,       \* client: the argument of the last sendMessage call
    socketOut,         \* client: what boost::asio::write put on its socket
    socketOpen,        \* client: its socket is open
    sends,             \* client: sendMessage calls made
    readMessage,       \* client: ChatClient::readMessage, its receive buffer
    receiving,         \* client: the async read pending ("header", "body") or "none"
    calls              \* Room operations called directly, in call order

serverVars == <<participants, MessageQueue, outgoingMessages, writes, readOp,
                incomingMessage, wire, pendingAccepts, received, joinReplay,
                broadcastLog>>
codecVars == <<message, result, text>>
receiveVars == <<readMessage, receiving>>
clientVars == <<messageText, socketOut, socketOpen, sends, calls, readMessage,
                receiving>>
vars == <<participants, MessageQueue, outgoingMessages, writes, readOp,
          incomingMessage, wire, pendingAccepts, received, joinReplay,
          broadcastLog, message, result, text, messageText, socketOut,
          socketOpen, sends, calls, readMessage, receiving>>

\* ------------------------------------------------------------------------
\* Sequence helpers
\* ------------------------------------------------------------------------
IsPrefix(a, b) == Len(a) <= Len(b) /\ SubSeq(b, 1, Len(a)) = a

LastN(q, n) == SubSeq(q, Len(q) - n + 1, Len(q))

Min(a, b) == IF a <= b THEN a ELSE b

RemoveAt(q, i) == SubSeq(q, 1, i - 1) \o SubSeq(q, i + 1, Len(q))

Reverse(q) == [i \in 1..Len(q) |-> q[Len(q) + 1 - i]]

\* ------------------------------------------------------------------------
\* Session: the write state machine
\* ------------------------------------------------------------------------
\* Session::async_write: nothing on an empty queue, else one more
\* boost::asio::async_write in flight, on the frame at the front.
async_writeIdle(q, w) == w

async_write(q, w) == IF q = <<>> THEN w ELSE Append(w, Head(q))

\* outgoingMessages.push_back(msg)
EnqueueFront(q, msg) == <<msg>> \o q

EnqueueBounded(q, msg) == IF Len(q) >= HistoryLimit THEN q ELSE Append(q, msg)

Enqueue(q, msg) == Append(q, msg)

\* Session::deliver on a session with queue q and in-flight writes w.
SessionDeliverAlwaysWrites(q, w, msg) ==
    LET q2 == Enqueue(q, msg)
    IN [out |-> q2, writes |-> async_write(q2, w)]

SessionDeliverNeverWrites(q, w, msg) ==
    [out |-> Enqueue(q, msg), writes |-> w]

SessionDeliver(q, w, msg) ==
    LET q2 == Enqueue(q, msg)
    IN [out |-> q2,
        writes |-> IF Len(q2) = 1 THEN async_write(q2, w) ELSE w]

\* Session::deliver waits for nothing: push_back and at most the initiating
\* call async_write, which returns at once.
DeliverWaitsForWrite(q, w) == w # <<>>

DeliverWaits(q, w) == FALSE

\* participant->deliver(msg) for each msg of msgs, in order.
RECURSIVE DeliverAll(_, _, _)
DeliverAll(q, w, msgs) ==
    IF msgs = <<>> THEN [out |-> q, writes |-> w]
    ELSE LET d == SessionDeliver(q, w, Head(msgs))
         IN \* d.out is never empty; testing it makes TLC evaluate each
            \* deliver before the next one instead of nesting them all.
            IF d.out = <<>> THEN d
            ELSE DeliverAll(d.out, d.writes, Tail(msgs))

\* outgoingMessages.pop_front() in the write completion handler.
PopBack(q) == IF q = <<>> THEN q ELSE SubSeq(q, 1, Len(q) - 1)

PopFront(q) == IF q = <<>> THEN q ELSE Tail(q)

\* ------------------------------------------------------------------------
\* Room
\* ------------------------------------------------------------------------
\* The order in which Room::join hands the history to the newcomer.
ReplayNewestFirst(h) == Reverse(h)

ReplayOrder(h) == h

\* MessageQueue.push_back(msg); if (size > 50) pop_front();
PushHistoryNoEvict(h, msg) == Append(h, msg)

PushHistoryEvictNewest(h, msg) ==
    LET h2 == Append(h, msg)
    IN IF Len(h2) > HistoryLimit THEN SubSeq(h2, 1, Len(h2) - 1) ELSE h2

PushHistory(h, msg) ==
    LET h2 == Append(h, msg)
    IN IF Len(h2) > HistoryLimit THEN Tail(h2) ELSE h2

\* participants.insert(participant) in Room::join
RoomJoinReplaces(parts, p) == {p}

RoomJoin(parts, p) == parts \cup {p}

\* participants.erase(participant) in Room::leave: erase by key, which
\* removes the element if it is there and does nothing otherwise.
RoomLeaveByIterator(parts, p) == IF p \in parts THEN parts \ {p} ELSE {}

RoomLeaveClears(parts, p) == {}

RoomLeaveKeeps(parts, p) == parts

RoomLeave(parts, p) == parts \ {p}

\* The participants the broadcast loop of Room::deliver calls deliver on.
RecipientsWithSender(parts, sender) == parts

RecipientsOnlySender(parts, sender) == parts \cap {sender}

RecipientsIfMember(parts, sender) ==
    IF sender \in parts THEN parts \ {sender} ELSE {}

Recipients(parts, sender) == parts \ {sender}

\* ------------------------------------------------------------------------
\* Session lifetime (shared_ptr)
\* ------------------------------------------------------------------------
\* The owners of a Session: the Room's set while it is a member, and the
\* self captured by each pending read and write handler.
UseCountNoWriteCapture(inRoom, rd, w) ==
    (IF inRoom THEN 1 ELSE 0) + (IF rd \in {"header", "body"} THEN 1 ELSE 0)

UseCountSelfReference(inRoom, rd, w) ==
    1 + (IF inRoom THEN 1 ELSE 0) + (IF rd \in {"header", "body"} THEN 1 ELSE 0)
      + Len(w)

UseCount(inRoom, rd, w) ==
    (IF inRoom THEN 1 ELSE 0) + (IF rd \in {"header", "body"} THEN 1 ELSE 0) + Len(w)

\* The read state of a session once the handler that ran on it returns:
\* the last owner gone, the Session is destroyed.
AfterHandler(inRoom, rd, w) ==
    IF UseCount(inRoom, rd, w) = 0 THEN "destroyed" ELSE rd

\* A member of a Session after a handler: destroyed with the Session.
Member(inRoom, rd, w, value, gone) ==
    IF UseCount(inRoom, rd, w) = 0 THEN gone ELSE value

\* Error codes the header read completes with. (The body read and write
\* handlers pass theirs to the log and do not test it.)
ErrorCodes == {"eof", "connection_reset"}

\* The error branch of the header read calls room.leave before it tests
\* the error code, which only selects the log line.
LeavesOnNotEof(ec) == ec # "eof"

LeavesOn(ec) == TRUE

\* The read pending on a session after its header failed decoding: the
\* branch calls room.leave and returns without issuing one.
AfterInvalidHeaderRetry == "header"

AfterInvalidHeader == "none"

\* ------------------------------------------------------------------------
\* Initial states
\* ------------------------------------------------------------------------
InitCodecIdle ==
    /\ message = DefaultMessage
    /\ result = "none"
    /\ text = NoText

\* The client connected and called startReceiving(); its user has typed
\* nothing yet.
InitClient ==
    /\ messageText = NoText
    /\ socketOut = <<>>
    /\ socketOpen = TRUE
    /\ sends = 0
    /\ calls = <<>>
    /\ readMessage = DefaultMessage
    /\ receiving = "header"

InitServer ==
    /\ participants = {}
    /\ MessageQueue = <<>>
    /\ outgoingMessages = [s \in Sessions |-> <<>>]
    /\ writes = [s \in Sessions |-> <<>>]
    /\ readOp = [s \in Sessions |-> "unborn"]
    /\ incomingMessage = [s \in Sessions |-> DefaultMessage]
    /\ wire = [s \in Sessions |-> <<>>]
    /\ pendingAccepts = 1
    /\ received = 0
    /\ joinReplay = [s \in Sessions |-> <<>>]
    /\ broadcastLog = <<>>

Init == InitServer /\ InitCodecIdle /\ InitClient

\* The one-byte frame whose body byte is k.
Frame(k) == [hdr |-> <<" ", " ", " ", "1">>, bodyLength |-> 1, body |-> <<k>>]

\* The server after n distinct frames were broadcast by sessions that are
\* gone again, the history one short of its limit or at it; one session can
\* still be accepted, the others came and went before the first broadcast.
InitWindow ==
    /\ \E n \in {HistoryLimit - 1, HistoryLimit} :
          /\ MessageQueue = [k \in 1..n |-> Frame(k)]
          /\ broadcastLog = [k \in 1..n |-> Frame(k)]
    /\ participants = {}
    /\ outgoingMessages = [s \in Sessions |-> <<>>]
    /\ writes = [s \in Sessions |-> <<>>]
    /\ readOp = [s \in Sessions |-> IF s = 1 THEN "unborn" ELSE "destroyed"]
    /\ incomingMessage = [s \in Sessions |-> DefaultMessage]
    /\ wire = [s \in Sessions |-> <<>>]
    /\ pendingAccepts = 1
    /\ received = 0
    /\ joinReplay = [s \in Sessions |-> <<>>]
    /\ InitCodecIdle
    /\ InitClient

\* No Message object yet, or one into whose data any 4 header bytes were
\* received.
InitCodec ==
    /\ InitServer
    /\ InitClient
    /\ message \in {DefaultMessage} \cup
                   {[DefaultMessage EXCEPT !.hdr = h, !.bodyLength = n] :
                        h \in [1..header -> HeaderAlphabet], n \in PriorLengths}
    /\ result = "none"
    /\ text = NoText

\* ------------------------------------------------------------------------
\* Accept loop
\* ------------------------------------------------------------------------
\* start_accept: one more async_accept pending on the acceptor; the handler
\* calls it last on both branches.
start_acceptOnSuccessOnly(pending, ok) == IF ok THEN pending + 1 ELSE pending

start_accept(pending, ok) == pending + 1

\* Session::start ends with async_read(): the first header read is pending
\* when the accept handler returns.
AfterStartNoRead == "none"

AfterStart == "header"

\* The async_accept handler with !ec: make_shared<Session>, session->start()
\* (Room::join with the history replay, then async_read), start_accept again.
AcceptOk ==
    /\ pendingAccepts > 0
    /\ \E s \in Sessions :
        /\ readOp[s] = "unborn"
        /\ \A t \in Sessions : readOp[t] = "unborn" => s <= t
        /\ LET d == DeliverAll(outgoingMessages[s], writes[s],
                               ReplayOrder(MessageQueue))
           IN /\ participants' = RoomJoin(participants, s)
              /\ outgoingMessages' = [outgoingMessages EXCEPT ![s] = d.out]
              /\ writes' = [writes EXCEPT ![s] = d.writes]
              /\ joinReplay' = [joinReplay EXCEPT ![s] = MessageQueue]
              /\ readOp' = [readOp EXCEPT ![s] = AfterStart]
    /\ pendingAccepts' = start_accept(pendingAccepts - 1, TRUE)
    /\ UNCHANGED <<MessageQueue, incomingMessage, wire, received, broadcastLog>>
    /\ UNCHANGED <<codecVars, clientVars>>

\* The async_accept handler with ec set: log, start_accept again.
AcceptError ==
    /\ pendingAccepts > 0
    /\ pendingAccepts' = start_accept(pendingAccepts - 1, FALSE)
    /\ UNCHANGED <<participants, MessageQueue, outgoingMessages, writes, readOp,
                   incomingMessage, wire, received, joinReplay, broadcastLog>>
    /\ UNCHANGED <<codecVars, clientVars>>

\* ------------------------------------------------------------------------
\* Session: the read state machine
\* ------------------------------------------------------------------------
\* The frames of q once the receive buffer, which held the frame buffer, was
\* overwritten with now: push_back stored copies of the Message, so q is as
\* it was.
StoredByReference(q, buffer, now) ==
    [i \in 1..Len(q) |-> IF q[i] = buffer THEN now ELSE q[i]]

Stored(q, buffer, now) == q

\* Completion of the header read with !ec, h the 4 bytes received.
ReadHeaderOk(s, h) ==
    /\ readOp[s] = "header"
    /\ received < MaxFrames
    /\ LET d == decodeHeader([incomingMessage[s] EXCEPT !.hdr = h, !.body = <<>>])
       IN IF d.ok
          THEN /\ incomingMessage' = [incomingMessage EXCEPT ![s] = d.msg]
               /\ readOp' = [readOp EXCEPT ![s] = "body"]
               /\ received' = received + 1
               /\ UNCHANGED <<participants, outgoingMessages, wire, joinReplay>>
          ELSE LET rd == AfterInvalidHeader
               IN /\ participants' = RoomLeave(participants, s)
                  /\ readOp' = [readOp EXCEPT ![s] =
                         AfterHandler(FALSE, rd, writes[s])]
                  /\ incomingMessage' = [incomingMessage EXCEPT ![s] =
                         Member(FALSE, rd, writes[s], d.msg, DefaultMessage)]
                  /\ outgoingMessages' = [outgoingMessages EXCEPT ![s] =
                         Member(FALSE, rd, writes[s], @, <<>>)]
                  /\ wire' = [wire EXCEPT ![s] =
                         Member(FALSE, rd, writes[s], @, <<>>)]
                  /\ joinReplay' = [joinReplay EXCEPT ![s] =
                         Member(FALSE, rd, writes[s], @, <<>>)]
                  /\ UNCHANGED received
    /\ MessageQueue' = Stored(MessageQueue, incomingMessage[s],
                              incomingMessage'[s])
    /\ UNCHANGED <<writes, pendingAccepts, broadcastLog>>
    /\ UNCHANGED <<codecVars, clientVars>>

\* Completion of the header read with ec set (eof or any other error).
ReadHeaderError(s) ==
    /\ readOp[s] = "header"
    /\ participants' \in {IF LeavesOn(ec) THEN RoomLeave(participants, s)
                          ELSE participants : ec \in ErrorCodes}
    /\ LET in == s \in participants'
       IN /\ readOp' = [readOp EXCEPT ![s] = AfterHandler(in, "none", writes[s])]
          /\ incomingMessage' = [incomingMessage EXCEPT ![s] =
                 Member(in, "none", writes[s], @, DefaultMessage)]
          /\ outgoingMessages' = [outgoingMessages EXCEPT ![s] =
                 Member(in, "none", writes[s], @, <<>>)]
          /\ wire' = [wire EXCEPT ![s] = Member(in, "none", writes[s], @, <<>>)]
          /\ joinReplay' = [joinReplay EXCEPT ![s] =
                 Member(in, "none", writes[s], @, <<>>)]
    /\ UNCHANGED <<MessageQueue, writes, pendingAccepts, received, broadcastLog>>
    /\ UNCHANGED <<codecVars, clientVars>>

\* Room::deliver(sender, msg): the new history and every session's queue
\* and in-flight writes after the broadcast loop.
RoomDeliver(sender, msg) ==
    LET to == Recipients(participants, sender)
        d(p) == SessionDeliver(outgoingMessages[p], writes[p], msg)
    IN [history |-> PushHistory(MessageQueue, msg),
        out |-> [p \in DOMAIN outgoingMessages |->
                    IF p \in to THEN d(p).out ELSE outgoingMessages[p]],
        writes |-> [p \in DOMAIN writes |->
                    IF p \in to THEN d(p).writes ELSE writes[p]]]

\* boost::asio::async_read on a buffer of n bytes completes with !ec only
\* when all n bytes were received.
BodyCompleteSome(b, n) == Len(b) <= n

BodyComplete(b, n) == Len(b) = n

\* The body handler ends with async_read(): the next header read.
AfterBodyReadsBody == "body"

AfterBody == "header"

\* The members after Session::write on s: it calls room.deliver only, the
\* membership is as it was.
AfterWriteRejoins(parts, s) == parts \cup {s}

AfterWrite(parts, s) == parts

\* Completion of the body read with !ec, b the body bytes received:
\* write(incomingMessage), i.e. room.deliver(self, msg), then async_read().
ReadBodyOk(s, b) ==
    /\ readOp[s] = "body"
    /\ BodyComplete(b, incomingMessage[s].bodyLength)
    /\ \A p \in Recipients(participants, s) :
          ~DeliverWaits(outgoingMessages[p], writes[p])
    /\ LET msg == [incomingMessage[s] EXCEPT !.body = b]
           r == RoomDeliver(s, msg)
       IN /\ incomingMessage' = [incomingMessage EXCEPT ![s] = msg]
          /\ MessageQueue' = r.history
          /\ outgoingMessages' = r.out
          /\ writes' = r.writes
          /\ broadcastLog' = Append(broadcastLog, msg)
    /\ readOp' = [readOp EXCEPT ![s] = AfterBody]
    /\ participants' = AfterWrite(participants, s)
    /\ UNCHANGED <<wire, pendingAccepts, received, joinReplay>>
    /\ UNCHANGED <<codecVars, clientVars>>

\* Completion of the body read with ec set.
ReadBodyError(s) ==
    /\ readOp[s] = "body"
    /\ participants' = RoomLeave(participants, s)
    /\ readOp' = [readOp EXCEPT ![s] = AfterHandler(FALSE, "none", writes[s])]
    /\ incomingMessage' = [incomingMessage EXCEPT ![s] =
           Member(FALSE, "none", writes[s], @, DefaultMessage)]
    /\ outgoingMessages' = [outgoingMessages EXCEPT ![s] =
           Member(FALSE, "none", writes[s], @, <<>>)]
    /\ wire' = [wire EXCEPT ![s] = Member(FALSE, "none", writes[s], @, <<>>)]
    /\ joinReplay' = [joinReplay EXCEPT ![s] =
           Member(FALSE, "none", writes[s], @, <<>>)]
    /\ UNCHANGED <<MessageQueue, writes, pendingAccepts, received, broadcastLog>>
    /\ UNCHANGED <<codecVars, clientVars>>

\* ------------------------------------------------------------------------
\* Session: write completions
\* ------------------------------------------------------------------------
\* if (!outgoingMessages.empty()) async_write(); after the pop_front of a
\* completed write, q the queue left and w the other writes in flight.
StartNextNever(q, w) == w

StartNext(q, w) == IF q # <<>> THEN async_write(q, w) ELSE w

\* Completion of the i-th in-flight write with !ec: its frame is on the
\* transport; pop_front(); if the queue is not empty, async_write().
WriteOk(s) == \E i \in DOMAIN writes[s] :
    /\ LET q == PopFront(outgoingMessages[s])
           w == RemoveAt(writes[s], i)
           w2 == StartNext(q, w)
           in == s \in participants
       IN /\ writes' = [writes EXCEPT ![s] = w2]
          /\ readOp' = [readOp EXCEPT ![s] = AfterHandler(in, @, w2)]
          /\ outgoingMessages' = [outgoingMessages EXCEPT ![s] =
                 Member(in, readOp[s], w2, q, <<>>)]
          /\ incomingMessage' = [incomingMessage EXCEPT ![s] =
                 Member(in, readOp[s], w2, @, DefaultMessage)]
          /\ wire' = [wire EXCEPT ![s] =
                 Member(in, readOp[s], w2, Append(@, writes[s][i]), <<>>)]
          /\ joinReplay' = [joinReplay EXCEPT ![s] =
                 Member(in, readOp[s], w2, @, <<>>)]
    /\ UNCHANGED <<participants, MessageQueue, pendingAccepts, received,
                   broadcastLog>>
    /\ UNCHANGED <<codecVars, clientVars>>

\* The queue after the error branch of the write handler: it logs and calls
\* room.leave, the failed frame stays at the front.
OnWriteErrorPops(q) == PopFront(q)

OnWriteError(q) == q

\* Completion of the i-th in-flight write with ec set: room.leave(self).
WriteError(s) == \E i \in DOMAIN writes[s] :
    /\ participants' = RoomLeave(participants, s)
    /\ LET w == RemoveAt(writes[s], i)
       IN /\ writes' = [writes EXCEPT ![s] = w]
          /\ readOp' = [readOp EXCEPT ![s] = AfterHandler(FALSE, @, w)]
          /\ outgoingMessages' = [outgoingMessages EXCEPT ![s] =
                 Member(FALSE, readOp[s], w, OnWriteError(@), <<>>)]
          /\ incomingMessage' = [incomingMessage EXCEPT ![s] =
                 Member(FALSE, readOp[s], w, @, DefaultMessage)]
          /\ wire' = [wire EXCEPT ![s] = Member(FALSE, readOp[s], w, @, <<>>)]
          /\ joinReplay' = [joinReplay EXCEPT ![s] =
                 Member(FALSE, readOp[s], w, @, <<>>)]
    /\ UNCHANGED <<MessageQueue, pendingAccepts, received, broadcastLog>>
    /\ UNCHANGED <<codecVars, clientVars>>

\* ------------------------------------------------------------------------
\* Specification of the server
\* ------------------------------------------------------------------------
Next ==
    \/ AcceptOk
    \/ AcceptError
    \/ \E s \in Sessions, h \in InHeaders : ReadHeaderOk(s, h)
    \/ \E s \in Sessions : ReadHeaderError(s)
    \/ \E s \in Sessions, b \in BodiesOfLen(0) \cup BodiesOfLen(1) : ReadBodyOk(s, b)
    \/ \E s \in Sessions : ReadBodyError(s)
    \/ \E s \in Sessions : WriteOk(s)
    \/ \E s \in Sessions : WriteError(s)

Spec == Init /\ [][Next]_vars

SpecWindow == InitWindow /\ [][Next]_vars

\* ------------------------------------------------------------------------
\* Specification of the server when the transport of every Session fails
\* ------------------------------------------------------------------------
\* The transport of s fails: its pending read completes with an error
\* eventually, and so does (with or without one) its write in flight.
TransportFails(s) ==
    /\ WF_vars(ReadHeaderError(s) \/ ReadBodyError(s))
    /\ WF_vars(WriteOk(s) \/ WriteError(s))

SpecLifetime ==
    /\ InitWindow
    /\ [][Next]_vars
    /\ \A s \in Sessions : TransportFails(s)

\* ------------------------------------------------------------------------
\* Specification of the server when no operation completes with an error
\* ------------------------------------------------------------------------
\* A Session still leaves the Room, with writes in flight, on an invalid
\* header.
NextDrain ==
    \/ AcceptOk
    \/ \E s \in Sessions, h \in InHeaders : ReadHeaderOk(s, h)
    \/ \E s \in Sessions, b \in BodiesOfLen(0) \cup BodiesOfLen(1) : ReadBodyOk(s, b)
    \/ \E s \in Sessions : WriteOk(s)

\* io.run() dispatches every completion that is ready: a write in flight
\* on a Session completes eventually.
SpecDrain ==
    /\ Init
    /\ [][NextDrain]_vars
    /\ \A s \in Sessions : WF_vars(WriteOk(s))

\* ------------------------------------------------------------------------
\* Specification of the fan-out: one sender and NumSessions recipients
\* ------------------------------------------------------------------------
FanoutSessions == 1..(NumSessions + 1)

\* The server after it accepted NumSessions + 1 connections, before any
\* read completed: every Session is a member with its first header read
\* pending, the history is empty.
InitFanout ==
    /\ participants = FanoutSessions
    /\ MessageQueue = <<>>
    /\ outgoingMessages = [s \in FanoutSessions |-> <<>>]
    /\ writes = [s \in FanoutSessions |-> <<>>]
    /\ readOp = [s \in FanoutSessions |-> "header"]
    /\ incomingMessage = [s \in FanoutSessions |-> DefaultMessage]
    /\ wire = [s \in FanoutSessions |-> <<>>]
    /\ pendingAccepts = 1
    /\ received = 0
    /\ joinReplay = [s \in FanoutSessions |-> <<>>]
    /\ broadcastLog = <<>>
    /\ InitCodecIdle
    /\ InitClient

\* The completion handlers of the connected Sessions; a further accept can
\* only fail.
NextFanout ==
    \/ AcceptError
    \/ \E s \in FanoutSessions, h \in InHeaders : ReadHeaderOk(s, h)
    \/ \E s \in FanoutSessions : ReadHeaderError(s)
    \/ \E s \in FanoutSessions, b \in BodiesOfLen(0) \cup BodiesOfLen(1) :
          ReadBodyOk(s, b)
    \/ \E s \in FanoutSessions : ReadBodyError(s)
    \/ \E s \in FanoutSessions : WriteOk(s)
    \/ \E s \in FanoutSessions : WriteError(s)

SpecFanout == InitFanout /\ [][NextFanout]_vars

\* ------------------------------------------------------------------------
\* Specification of the Room (its three operations called directly)
\* ------------------------------------------------------------------------
\* Frames handed to room.deliver by its caller.
RoomFrames == {Frame(1), Frame(2)}

\* room.join(p), on any Session object: a member or not.
JoinCall(p) ==
    /\ Len(calls) < MaxCalls
    /\ LET d == DeliverAll(outgoingMessages[p], writes[p],
                           ReplayOrder(MessageQueue))
       IN /\ participants' = RoomJoin(participants, p)
          /\ outgoingMessages' = [outgoingMessages EXCEPT ![p] = d.out]
          /\ writes' = [writes EXCEPT ![p] = d.writes]
          /\ joinReplay' = [joinReplay EXCEPT ![p] = MessageQueue]
    /\ calls' = Append(calls, [op |-> "join", p |-> p])
    /\ UNCHANGED <<MessageQueue, readOp, incomingMessage, wire, pendingAccepts,
                   received, broadcastLog>>
    /\ UNCHANGED <<codecVars, messageText, socketOut, socketOpen, sends,
                   receiveVars>>

\* room.leave(p), on any Session object: a member, one that left already,
\* or one that never joined.
LeaveCall(p) ==
    /\ Len(calls) < MaxCalls
    /\ participants' = RoomLeave(participants, p)
    /\ calls' = Append(calls, [op |-> "leave", p |-> p])
    /\ UNCHANGED <<MessageQueue, outgoingMessages, writes, readOp,
                   incomingMessage, wire, pendingAccepts, received, joinReplay,
                   broadcastLog>>
    /\ UNCHANGED <<codecVars, messageText, socketOut, socketOpen, sends,
                   receiveVars>>

\* room.deliver(sender, msg)
DeliverCall(sender, msg) ==
    /\ Len(calls) < MaxCalls
    /\ \A p \in Recipients(participants, sender) :
          ~DeliverWaits(outgoingMessages[p], writes[p])
    /\ LET r == RoomDeliver(sender, msg)
       IN /\ MessageQueue' = r.history
          /\ outgoingMessages' = r.out
          /\ writes' = r.writes
    /\ broadcastLog' = Append(broadcastLog, msg)
    /\ calls' = Append(calls, [op |-> "deliver", p |-> sender])
    /\ UNCHANGED <<participants, readOp, incomingMessage, wire, pendingAccepts,
                   received, joinReplay>>
    /\ UNCHANGED <<codecVars, messageText, socketOut, socketOpen, sends,
                   receiveVars>>

NextRoom ==
    \/ \E p \in Sessions : JoinCall(p)
    \/ \E p \in Sessions : LeaveCall(p)
    \/ \E sender \in Sessions, msg \in RoomFrames : DeliverCall(sender, msg)

\* The Room of main with Session objects constructed and not started; no
\* completion handler runs.
SpecRoom == Init /\ [][NextRoom]_vars

\* The Room after HistoryLimit distinct frames were broadcast by sessions
\* that are gone again: its history is full, it has no member.
InitRoomFull ==
    /\ MessageQueue = [k \in 1..HistoryLimit |-> Frame(k)]
    /\ broadcastLog = [k \in 1..HistoryLimit |-> Frame(k)]
    /\ participants = {}
    /\ outgoingMessages = [s \in Sessions |-> <<>>]
    /\ writes = [s \in Sessions |-> <<>>]
    /\ readOp = [s \in Sessions |-> "unborn"]
    /\ incomingMessage = [s \in Sessions |-> DefaultMessage]
    /\ wire = [s \in Sessions |-> <<>>]
    /\ pendingAccepts = 1
    /\ received = 0
    /\ joinReplay = [s \in Sessions |-> <<>>]
    /\ InitCodecIdle
    /\ InitClient

SpecRoomFull == InitRoomFull /\ [][NextRoom]_vars

\* ------------------------------------------------------------------------
\* Specification of the codec
\* ------------------------------------------------------------------------
\* Message message(str)
Construct(str) ==
    /\ result = "none"
    /\ message = DefaultMessage
    /\ LET r == MessageCtor(str)
       IN /\ message' = IF r.ok THEN r.msg ELSE message
          /\ result' = IF r.ok THEN "constructed" ELSE "length_error"
    /\ text' = str
    /\ UNCHANGED <<serverVars, clientVars>>

\* message.setBody(str) on an existing object
SetBody(str) ==
    /\ result \in {"constructed", "true", "false"}
    /\ LET r == setBody(message, str)
       IN /\ message' = r.msg
          /\ result' = IF r.ok THEN "set" ELSE "length_error"
    /\ text' = str
    /\ UNCHANGED <<serverVars, clientVars>>

\* message.setBodyLength(n) on an existing object
SetBodyLength(n) ==
    /\ result \in {"constructed", "true", "false"}
    /\ LET r == setBodyLength(message, n)
       IN /\ message' = r.msg
          /\ result' = IF r.ok THEN "length_set" ELSE "length_error"
    /\ UNCHANGED <<text, serverVars, clientVars>>

\* message.decodeHeader() on received header bytes, or on the header the
\* object encoded itself
DecodeHeader ==
    /\ \/ result = "none" /\ message # DefaultMessage
       \/ result \in {"constructed", "set"}
    /\ LET d == decodeHeader(message)
       IN /\ message' = d.msg
          /\ result' = IF d.ok THEN "true" ELSE "false"
    /\ UNCHANGED <<text, serverVars, clientVars>>

NextCodec ==
    \/ \E str \in Texts : Construct(str)
    \/ \E str \in Texts : SetBody(str)
    \/ \E n \in TextLengths : SetBodyLength(n)
    \/ DecodeHeader

\* ------------------------------------------------------------------------
\* Specification of the client's send path (client.cpp)
\* ------------------------------------------------------------------------
\* ChatClient::sendMessage(str): the constructor and boost::asio::write in
\* one try block, the handler of the exception only logs.
SendMessage(str) ==
    /\ socketOpen
    /\ sends < MaxSends
    /\ LET r == MessageCtor(str)
       IN socketOut' = IF r.ok THEN Append(socketOut, WireBytes(r.msg))
                       ELSE socketOut
    /\ messageText' = str
    /\ sends' = sends + 1
    /\ UNCHANGED <<socketOpen, calls, receiveVars, serverVars, codecVars>>

\* The user types quit or exit: the input loop ends, socket.close().
Quit ==
    /\ socketOpen
    /\ socketOpen' = FALSE
    /\ UNCHANGED <<messageText, socketOut, sends, calls, receiveVars, serverVars,
                   codecVars>>

\* The read the client has pending after a header that failed decoding:
\* the branch logs and calls startReceiving() again.
AfterClientInvalidHeaderStops == "none"

AfterClientInvalidHeader == "header"

\* Error codes the client's reads complete with: operation_aborted once
\* socket.close() cancelled them, a transport error before.
ClientErrorCodes ==
    IF socketOpen THEN {"eof", "connection_reset"} ELSE {"operation_aborted"}

\* Completion of the client's header read with !ec, h the 4 bytes received.
ClientReadHeaderOk(h) ==
    /\ socketOpen
    /\ receiving = "header"
    /\ LET d == decodeHeader([readMessage EXCEPT !.hdr = h, !.body = <<>>])
       IN /\ readMessage' = d.msg
          /\ receiving' = IF d.ok THEN "body" ELSE AfterClientInvalidHeader
    /\ UNCHANGED <<messageText, socketOut, socketOpen, sends, calls, serverVars,
                   codecVars>>

\* Completion of the client's body read with !ec: the body is printed,
\* startReceiving().
ClientReadBodyOk(b) ==
    /\ socketOpen
    /\ receiving = "body"
    /\ Len(b) = readMessage.bodyLength
    /\ readMessage' = [readMessage EXCEPT !.body = b]
    /\ receiving' = "header"
    /\ UNCHANGED <<messageText, socketOut, socketOpen, sends, calls, serverVars,
                   codecVars>>

\* Completion of the client's header or body read with ec set: a log line
\* unless ec is operation_aborted, and no read is issued.
ClientReadError ==
    /\ receiving \in {"header", "body"}
    /\ \E ec \in ClientErrorCodes : receiving' = "none"
    /\ UNCHANGED <<readMessage, messageText, socketOut, socketOpen, sends, calls,
                   serverVars, codecVars>>

NextClient ==
    \/ \E str \in ClientTexts : SendMessage(str)
    \/ Quit
    \/ \E h \in InHeaders : ClientReadHeaderOk(h)
    \/ \E b \in BodiesOfLen(0) \cup BodiesOfLen(1) : ClientReadBodyOk(b)
    \/ ClientReadError

SpecClient == Init /\ [][NextClient]_vars

SpecCodec == InitCodec /\ [][NextCodec]_vars

\* ------------------------------------------------------------------------
\* Properties
\* ------------------------------------------------------------------------
\* The Session object exists (constructed and not yet destroyed).
Alive(s) == readOp[s] \in {"header", "body", "none"}

\* Every frame Session::deliver was called with on s, in call order: the
\* transmitted ones, then the queued ones.
Delivered(s) == wire[s] \o outgoingMessages[s]

Last(q) == q[Len(q)]

\* The step in which the body read of s completes and s broadcasts.
BroadcastStep(s) == readOp[s] = "body" /\ readOp'[s] = "header"

\* C1: in every reachable state no Session has more than one async_write
\* pending on its socket.
OneWriteInFlight == \A s \in Sessions : Len(writes[s]) <= 1

\* A write is in flight on a session while a second frame waits behind it.
OneWriteInFlightWitness ==
    \E s \in Sessions : Len(writes[s]) = 1 /\ Len(outgoingMessages[s]) >= 2

\* C2: the frames of a Session reach its transport in the order deliver was
\* called: each transmission is the frame at the front of the queue, and
\* the sequence of delivered frames (transmitted, then queued) only ever
\* grows at its end.
WriteOrdering ==
    [][\A s \in Sessions :
          (Alive(s) /\ readOp'[s] # "destroyed") =>
              /\ IsPrefix(wire[s] \o outgoingMessages[s],
                          wire'[s] \o outgoingMessages'[s])
              /\ IsPrefix(wire[s], wire'[s])
              /\ wire'[s] # wire[s] =>
                    /\ outgoingMessages[s] # <<>>
                    /\ wire'[s] = Append(wire[s], Head(outgoingMessages[s]))
                    /\ outgoingMessages'[s] = Tail(outgoingMessages[s])]_vars

\* Two different frames, delivered to a session one after the other, have
\* both been transmitted to it, in that order.
WriteOrderingWitness ==
    \E s \in Sessions :
        /\ Len(wire[s]) = 2
        /\ Len(broadcastLog) = 2
        /\ wire[s] = broadcastLog
        /\ wire[s][1] # wire[s][2]

\* C3: the broadcast of a frame by a Session never calls deliver on that
\* Session: its own queue and writes are left as they were.
NoSelfEcho ==
    [][\A s \in Sessions :
          BroadcastStep(s) =>
              /\ outgoingMessages'[s] = outgoingMessages[s]
              /\ writes'[s] = writes[s]]_vars

\* A member has just broadcast a frame: another member has it at the end
\* of its queue, the sender has received nothing beyond its join replay.
NoSelfEchoWitness ==
    \E s \in participants, p \in participants :
        /\ p # s
        /\ readOp[s] = "header"
        /\ broadcastLog # <<>>
        /\ incomingMessage[s] = Last(broadcastLog)
        /\ Delivered(s) = joinReplay[s]
        /\ outgoingMessages[p] # <<>>
        /\ Last(outgoingMessages[p]) = Last(broadcastLog)

\* C4: a broadcast appends the frame exactly once to the queue of every
\* member other than the sender, and leaves the queue of every session
\* that is not a member as it was.
BroadcastReachesOthersOnce ==
    [][\A s \in Sessions :
          BroadcastStep(s) =>
              \A p \in Sessions \ {s} :
                  outgoingMessages'[p] =
                      IF p \in participants
                      THEN Append(outgoingMessages[p], incomingMessage'[s])
                      ELSE outgoingMessages[p]]_vars

\* A member received a frame broadcast after its join, while the sender is
\* still a member.
BroadcastReachesOthersOnceWitness ==
    \E s \in participants, p \in participants :
        /\ p # s
        /\ broadcastLog # <<>>
        /\ incomingMessage[s] = Last(broadcastLog)
        /\ Len(Delivered(p)) > Len(joinReplay[p])
        /\ Last(Delivered(p)) = Last(broadcastLog)

\* C5: the frames delivered to a Session begin with the history as it was
\* when the Session joined, oldest first; every other frame comes after.
JoinReplayFirst ==
    \A s \in Sessions : Alive(s) => IsPrefix(joinReplay[s], Delivered(s))

\* A session joined a room with a history, has had the replay transmitted,
\* and was delivered a later broadcast after it.
JoinReplayFirstWitness ==
    \E s \in Sessions :
        /\ Alive(s)
        /\ joinReplay[s] # <<>>
        /\ Len(wire[s]) >= Len(joinReplay[s])
        /\ Len(Delivered(s)) > Len(joinReplay[s])

\* C6: the history never holds more than 50 frames.
HistoryBounded == Len(MessageQueue) <= HistoryLimit

\* More than 50 frames were broadcast and the history is full.
HistoryBoundedWitness ==
    Len(broadcastLog) > HistoryLimit /\ Len(MessageQueue) = HistoryLimit

\* C7: after n broadcasts the history is the last min(n, 50) broadcast
\* frames, in broadcast order.
SlidingWindow ==
    MessageQueue = LastN(broadcastLog, Min(Len(broadcastLog), HistoryLimit))

\* Two frames were evicted: the history starts at the third broadcast.
SlidingWindowWitness ==
    /\ Len(broadcastLog) = HistoryLimit + 2
    /\ MessageQueue[1] = broadcastLog[3]
    /\ MessageQueue[1] # broadcastLog[1]

\* C8: a body read of a Session that completes after the Session left the
\* Room changes neither the history nor any outbound queue.
StrayReadNotBroadcast ==
    [][\A s \in Sessions :
          (BroadcastStep(s) /\ s \notin participants) =>
              /\ MessageQueue' = MessageQueue
              /\ outgoingMessages' = outgoingMessages]_vars

\* C9: a Session that has left the Room (every leave follows a transport
\* or header error) starts no read and no write again and broadcasts nothing.
ClosedIsTerminal ==
    [][\A s \in Sessions :
          (Alive(s) /\ s \notin participants) =>
              /\ readOp'[s] \in {readOp[s], "none", "destroyed"}
              /\ writes'[s] # writes[s] => Len(writes'[s]) < Len(writes[s])
              /\ ~BroadcastStep(s)]_vars

\* The 4 header bytes are a decimal integer: spaces, then digits to the end.
IsDecimal(h) ==
    \E k \in 0..(Len(h) - 1) :
        /\ \A i \in 1..k : h[i] = " "
        /\ \A i \in (k + 1)..Len(h) : h[i] \in Digits

\* C10: decodeHeader succeeds exactly on the headers that are a decimal
\* integer in 0..512, and then stores that integer as the body length.
DecodeHeaderValidates ==
    result \in {"true", "false"} =>
        /\ result = "true" <=>
              (IsDecimal(message.hdr) /\ atoi(message.hdr) \in 0..maxBytes)
        /\ result = "true" => message.bodyLength = atoi(message.hdr)

\* The number the 4 header bytes spell, a space counting as a zero.
PaddedValue(h) ==
    DigitVal(h[1]) * 1000 + DigitVal(h[2]) * 100 + DigitVal(h[3]) * 10
        + DigitVal(h[4])

\* C11: on a header that is a decimal v in 0..9999, space- or zero-padded,
\* decodeHeader succeeds exactly when v <= 512 and then stores v as the body
\* length; when it fails the stored body length is 0.
DecodeHeaderBounds ==
    (result \in {"true", "false"} /\ IsDecimal(message.hdr)) =>
        LET v == PaddedValue(message.hdr)
        IN /\ result = "true" <=> v <= maxBytes
           /\ result = "true" => message.bodyLength = v
           /\ result = "false" => message.bodyLength = 0

\* decodeHeader failed on "9999", the stored length is 0.
DecodeHeaderBoundsWitness ==
    /\ result = "false"
    /\ message.hdr = <<"9", "9", "9", "9">>
    /\ message.bodyLength = 0

\* The 4 bytes h are the decimal n with no leading zero, right-justified
\* and padded with spaces.
RightJustified(h, n) ==
    /\ Len(h) = header
    /\ \E k \in 0..(header - 1) :
          /\ \A i \in 1..k : h[i] = " "
          /\ \A i \in (k + 1)..header : h[i] \in Digits
          /\ k < header - 1 => h[k + 1] # "0"
    /\ PaddedValue(h) = n

OversizeRejected ==
    [][/\ result' = "length_error" => message' = message
       /\ (result' = "length_error" /\ text' # text) => Len(text') > maxBytes
       /\ (result' \in {"constructed", "set"} /\ result' # result) =>
             /\ Len(text') <= maxBytes
             /\ message'.bodyLength = Len(text')
       /\ result' = "length_set" => message'.bodyLength <= maxBytes]_vars

\* setBody of 513 bytes failed on a Message holding 512 bytes, which it
\* still holds.
OversizeRejectedWitness ==
    /\ result = "length_error"
    /\ Len(text) = maxBytes + 1
    /\ message.bodyLength = maxBytes
    /\ getBody(message) = Fill(maxBytes, 7)

\* C14: sendMessage with more than 512 bytes writes nothing to the socket
\* and leaves it open; a send of at most 512 bytes, after a rejected one
\* too, puts exactly its frame on the socket.
OversizeSendRejectedLocally ==
    [][sends' = sends + 1 =>
          IF Len(messageText') > maxBytes
          THEN socketOut' = socketOut /\ socketOpen' = socketOpen
          ELSE /\ Len(socketOut') = Len(socketOut) + 1
               /\ SubSeq(socketOut', 1, Len(socketOut)) = socketOut
               /\ socketOut'[Len(socketOut')].body = messageText'
               /\ RightJustified(socketOut'[Len(socketOut')].hdr,
                                 Len(messageText'))]_vars

\* The first send was rejected, the second one went out.
OversizeSendRejectedLocallyWitness ==
    /\ sends = 2
    /\ socketOpen
    /\ Len(socketOut) = 1
    /\ socketOut[1].body = messageText

\* C15: a body read is pending only after a header that decoded, and then
\* for the decoded length, which is in 0..512.
BodyReadBounded ==
    \A s \in Sessions :
        readOp[s] = "body" =>
            /\ atoi(incomingMessage[s].hdr) \in 0..maxBytes
            /\ incomingMessage[s].bodyLength = atoi(incomingMessage[s].hdr)
            /\ incomingMessage[s].bodyLength <= maxBytes

\* A body read of one byte is pending.
BodyReadBoundedWitness ==
    \E s \in Sessions :
        readOp[s] = "body" /\ incomingMessage[s].bodyLength = 1

\* The last Room operation called directly.
LastCall == calls[Len(calls)]

\* The Room operation op was called in this step.
Called(op) == calls' # calls /\ calls'[Len(calls')].op = op

\* join was called on p before the last call.
JoinedBefore(p) ==
    \E i \in 1..(Len(calls) - 1) : calls[i] = [op |-> "join", p |-> p]

\* C16: leave(p) on a member removes exactly p; leave(p) on a participant
\* that left already or never joined changes nothing; in both cases the
\* history and every queue stay as they are.
LeaveIdempotent ==
    [][Called("leave") =>
          LET p == calls'[Len(calls')].p
          IN /\ p \in participants => participants' = participants \ {p}
             /\ p \notin participants => participants' = participants
             /\ MessageQueue' = MessageQueue
             /\ outgoingMessages' = outgoingMessages
             /\ writes' = writes]_vars

\* leave was called on a participant that never joined, in a Room with a
\* member and a history.
LeaveIdempotentWitness ==
    /\ calls # <<>>
    /\ LastCall.op = "leave"
    /\ ~JoinedBefore(LastCall.p)
    /\ participants # {}
    /\ MessageQueue # <<>>

\* C17: join(p) on a member leaves the membership as it is, join(p) on a
\* non-member adds exactly p; a member, however often it joined, gets one
\* copy of a broadcast.
JoinOnce ==
    [][/\ Called("join") =>
             LET p == calls'[Len(calls')].p
             IN /\ p \in participants => participants' = participants
                /\ participants' = participants \cup {p}
       /\ Called("deliver") =>
             \A p \in participants \ {calls'[Len(calls')].p} :
                 outgoingMessages'[p] =
                     Append(outgoingMessages[p], Last(broadcastLog'))]_vars

\* join was called on a member that had joined before, next to another
\* member.
JoinOnceWitness ==
    /\ calls # <<>>
    /\ LastCall.op = "join"
    /\ JoinedBefore(LastCall.p)
    /\ \E i \in 1..(Len(calls) - 1) :
          /\ calls[i] = [op |-> "join", p |-> LastCall.p]
          /\ \A j \in (i + 1)..(Len(calls) - 1) :
                calls[j] # [op |-> "leave", p |-> LastCall.p]
    /\ Cardinality(participants) = 2

\* The header bytes h fail decoding.
BadHeader(h) == h # <<>> /\ atoi(h) \notin 0..maxBytes

\* The read of s that was pending completed and none was issued.
ReadStopped(s) ==
    readOp[s] \in {"header", "body"} /\ readOp'[s] \in {"none", "destroyed"}

\* A write of s completed and the frame at the front of its queue did not
\* go out, or the Session was destroyed by the completion.
WriteFailed(s) ==
    /\ Len(writes'[s]) < Len(writes[s])
    /\ readOp'[s] = "destroyed" \/ wire'[s] = wire[s]

\* Session s is as it was.
SessionUnchanged(s) ==
    /\ outgoingMessages'[s] = outgoingMessages[s]
    /\ writes'[s] = writes[s]
    /\ readOp'[s] = readOp[s]
    /\ incomingMessage'[s] = incomingMessage[s]
    /\ wire'[s] = wire[s]

\* C18: a Session whose header failed decoding is out of the Room and has
\* no read pending, for good; the step in which its read stops adds
\* nothing to the history and enqueues nothing on any Session.
InvalidHeaderFatal ==
    /\ [](\A s \in Sessions :
             (Alive(s) /\ BadHeader(incomingMessage[s].hdr)) =>
                 readOp[s] = "none" /\ s \notin participants)
    /\ [][\A s \in Sessions :
             ReadStopped(s) =>
                 /\ s \notin participants'
                 /\ MessageQueue' = MessageQueue
                 /\ broadcastLog' = broadcastLog
                 /\ \A t \in Sessions :
                       Alive(t)' => outgoingMessages'[t] = outgoingMessages[t]]_vars

\* A Session that received "9999" lives on (a write of it is in flight)
\* outside the Room with no read pending.
InvalidHeaderFatalWitness ==
    \E s \in Sessions :
        /\ incomingMessage[s].hdr = <<"9", "9", "9", "9">>
        /\ readOp[s] = "none"
        /\ writes[s] # <<>>
        /\ s \notin participants

\* C19: every read or write error takes the Session out of the Room; a
\* read error, end of file like any other, leaves behind one state: the
\* Session out of the Room with no read pending, its writes and its queue
\* as they were.
ErrorLeaves ==
    [][\A s \in Sessions :
          /\ (ReadStopped(s) \/ WriteFailed(s)) =>
                participants' = participants \ {s}
          /\ ReadStopped(s) =>
                /\ readOp'[s] = IF writes[s] = <<>> THEN "destroyed" ELSE "none"
                /\ writes' = writes
                /\ Alive(s)' =>
                      /\ outgoingMessages'[s] = outgoingMessages[s]
                      /\ wire'[s] = wire[s]]_vars

\* A member with a body read pending and a write in flight: each of the
\* three errors can strike it.
ErrorLeavesWitness ==
    \E s \in participants :
        readOp[s] = "body" /\ writes[s] # <<>>

\* C20: a read, write or header error on a Session leaves the history,
\* the membership of the others, every other Session and the pending
\* accept as they were.
ErrorContained ==
    [][\A s \in Sessions :
          (ReadStopped(s) \/ WriteFailed(s)) =>
              /\ MessageQueue' = MessageQueue
              /\ participants' \ {s} = participants \ {s}
              /\ \A t \in Sessions \ {s} : SessionUnchanged(t)
              /\ pendingAccepts' = pendingAccepts]_vars

\* A Session is out of the Room after an error while another member has a
\* read pending, a frame queued and a write in flight.
ErrorContainedWitness ==
    \E s \in Sessions, t \in participants :
        /\ s # t
        /\ readOp[s] \in {"none", "destroyed"}
        /\ readOp[t] \in {"header", "body"}
        /\ outgoingMessages[t] # <<>>
        /\ writes[t] # <<>>

\* C21: a Session that is a member of the Room or has a read or a write
\* pending is alive (not yet started and destroyed Sessions are neither),
\* so every completion handler runs on a live Session.
SessionOutlivesOperations ==
    \A s \in Sessions :
        (s \in participants \/ readOp[s] \in {"header", "body"}
            \/ writes[s] # <<>>) => Alive(s)

\* The Room released a Session that has no read pending; the write still
\* in flight keeps it alive.
SessionOutlivesOperationsWitness ==
    \E s \in Sessions :
        /\ s \notin participants
        /\ readOp[s] = "none"
        /\ writes[s] # <<>>

\* C22: between handler executions exactly one accept is pending,
\* whatever the accept completions so far were.
AcceptAlwaysPending == pendingAccepts = 1

\* Every Session the model has was accepted, and an accept is pending.
AcceptAlwaysPendingWitness ==
    /\ \A s \in Sessions : readOp[s] # "unborn"
    /\ pendingAccepts = 1

RECURSIVE IsSubseq(_, _)
IsSubseq(a, b) ==
    IF a = <<>> THEN TRUE
    ELSE IF b = <<>> THEN FALSE
    ELSE IF Head(a) = Head(b) THEN IsSubseq(Tail(a), Tail(b))
    ELSE IsSubseq(a, Tail(b))

BroadcastAtomic ==
    Len(broadcastLog) = 1 =>
        \A p \in DOMAIN wire, q \in DOMAIN wire :
            (Alive(p) /\ Alive(q) /\ wire[p] = broadcastLog
                /\ outgoingMessages[q] = broadcastLog) => writes[q] # <<>>

\* The step in which s is constructed and started.
StartStep(s) == readOp[s] = "unborn" /\ readOp'[s] # "unborn"

ReadCycle ==
    {<<"unborn", "header">>, <<"header", "body">>, <<"body", "header">>,
     <<"header", "none">>, <<"body", "none">>,
     <<"header", "destroyed">>, <<"body", "destroyed">>,
     <<"none", "destroyed">>}

Complete(m) == Len(m.hdr) = header /\ Len(m.body) = m.bodyLength

\* Every frame of the sequence q is complete.
AllComplete(q) == \A i \in 1..Len(q) : Complete(q[i])

\* The step in which the body read of s completes with an error.
BodyReadFails(s) == readOp[s] = "body" /\ readOp'[s] \in {"none", "destroyed"}

\* C28: every frame in the history or in a queue is a complete frame; when
\* a body read completes and the next header read is issued the frame has
\* been broadcast; a failed body read leaves the history, the broadcast
\* sequence and every other Session's queue and writes as they were.
BroadcastOnlyComplete ==
    [][/\ AllComplete(MessageQueue')
       /\ \A s \in Sessions :
            /\ AllComplete(outgoingMessages'[s])
            /\ BroadcastStep(s) =>
                  /\ Len(broadcastLog') = Len(broadcastLog) + 1
                  /\ Complete(Last(broadcastLog'))
            /\ BodyReadFails(s) =>
                  /\ MessageQueue' = MessageQueue
                  /\ broadcastLog' = broadcastLog
                  /\ \A p \in Sessions \ {s} :
                        /\ outgoingMessages'[p] = outgoingMessages[p]
                        /\ writes'[p] = writes[p]]_vars

\* The body read of a one-byte frame failed on a Session after its header
\* was received: the one frame broadcast, and in the history, is the frame
\* of the other Session.
BroadcastOnlyCompleteWitness ==
    \E s \in Sessions, p \in participants :
        /\ s # p
        /\ readOp[s] = "none"
        /\ incomingMessage[s].bodyLength = 1
        /\ incomingMessage[s].body = <<>>
        /\ broadcastLog = <<incomingMessage[p]>>
        /\ MessageQueue = broadcastLog
        /\ outgoingMessages[p] = <<>>

\* C29: a deliver of one frame on a Session starts the write of that frame
\* exactly when its queue was empty, and otherwise only appends; a write
\* completion transmits and pops the front, and puts the write of the new
\* front in flight exactly when the queue is not empty afterwards.
WriteCycle ==
    [][\A s \in Sessions :
          (Alive(s) /\ readOp'[s] # "destroyed") =>
              /\ Len(outgoingMessages'[s]) = Len(outgoingMessages[s]) + 1 =>
                    /\ SubSeq(outgoingMessages'[s], 1, Len(outgoingMessages[s]))
                           = outgoingMessages[s]
                    /\ writes'[s] = IF outgoingMessages[s] = <<>>
                                     THEN Append(writes[s],
                                                 Last(outgoingMessages'[s]))
                                     ELSE writes[s]
              /\ wire'[s] # wire[s] =>
                    /\ outgoingMessages'[s] = Tail(outgoingMessages[s])
                    /\ writes'[s] = IF outgoingMessages'[s] # <<>>
                                     THEN <<Head(outgoingMessages'[s])>>
                                     ELSE <<>>]_vars

\* A write completed on a Session with a second frame queued: the first
\* frame is transmitted and the write of the second one is in flight.
WriteCycleWitness ==
    \E s \in Sessions :
        /\ Len(wire[s]) = 1
        /\ Len(outgoingMessages[s]) = 1
        /\ writes[s] = outgoingMessages[s]
        /\ wire[s] # outgoingMessages[s]

\* C30: when no operation fails and every write in flight completes
\* eventually, a queue that holds frames is eventually empty with no write
\* in flight: every frame enqueued has left the queue, which a frame only
\* does by being transmitted.
EventuallyTransmitted ==
    \A s \in Sessions :
        (outgoingMessages[s] # <<>>)
            ~> (outgoingMessages[s] = <<>> /\ writes[s] = <<>>)

\* Two frames were delivered to a Session and both were transmitted; its
\* queue is empty and it has no write in flight.
EventuallyTransmittedWitness ==
    \E s \in Sessions :
        /\ Alive(s)
        /\ Len(wire[s]) = 2
        /\ outgoingMessages[s] = <<>>
        /\ writes[s] = <<>>

\* A Session that was constructed and that nothing owns any more.
Unreferenced(s) ==
    /\ readOp[s] # "unborn"
    /\ s \notin participants
    /\ readOp[s] \notin {"header", "body"}
    /\ writes[s] = <<>>

\* C31: a Session is destroyed exactly when it is not a member and no read
\* or write is pending on it; and a Session whose transport fails is
\* eventually destroyed.
DestroyedWhenUnreferenced ==
    /\ [](\A s \in Sessions : readOp[s] = "destroyed" <=> Unreferenced(s))
    /\ \A s \in Sessions : (readOp[s] # "unborn") ~> (readOp[s] = "destroyed")

\* Every Session has come and gone, the last one after a Room with a full
\* history was replayed to it.
DestroyedWhenUnreferencedWitness ==
    /\ \A s \in Sessions : readOp[s] = "destroyed"
    /\ Len(MessageQueue) = HistoryLimit
    /\ participants = {}

QueueEncodesWrite ==
    /\ \A s \in Sessions : writes[s] = <<>> /\ outgoingMessages[s] = <<>>
    /\ [][\A s \in Sessions :
             (/\ (writes[s] # <<>>) <=> (outgoingMessages[s] # <<>>)
              /\ ~WriteFailed(s)) =>
                 /\ (writes'[s] # <<>>) <=> (outgoingMessages'[s] # <<>>)
                 /\ writes'[s] # <<>> =>
                        writes'[s] = <<Head(outgoingMessages'[s])>>]_vars

\* A Session that left the Room when its reads stopped still has the next
\* frame of its queue in flight after an earlier one was transmitted.
QueueEncodesWriteWitness ==
    \E s \in Sessions :
        /\ s \notin participants
        /\ readOp[s] = "none"
        /\ wire[s] # <<>>
        /\ outgoingMessages[s] # <<>>
        /\ writes[s] = <<Head(outgoingMessages[s])>>

\* C34: every member of the Room has a header or a body read pending; and
\* a member whose transport fails is eventually no member.
MemberReads ==
    /\ [](\A s \in participants : readOp[s] \in {"header", "body"})
    /\ \A s \in Sessions : (s \in participants) ~> (s \notin participants)

\* A member has received a header and its body read is pending while the
\* replay is still being written to it.
MemberReadsWitness ==
    \E s \in participants :
        /\ readOp[s] = "body"
        /\ writes[s] # <<>>
        /\ wire[s] # <<>>

\* A Session with frames queued and no write in flight.
Stalled(s) == Alive(s) /\ outgoingMessages[s] # <<>> /\ writes[s] = <<>>

\* C35: the step in which a write of a Session fails leaves its queue as it
\* was, the failed frame at the front, with no write in flight and the
\* Session out of the Room; from then on, as long as the Session exists,
\* its queue stays as it is, no write is started and it is no member.
WriteErrorStalls ==
    [][\A s \in Sessions :
          /\ (WriteFailed(s) /\ readOp'[s] # "destroyed") =>
                /\ outgoingMessages'[s] = outgoingMessages[s]
                /\ Head(outgoingMessages'[s]) = Head(writes[s])
                /\ writes'[s] = <<>>
                /\ s \notin participants'
          /\ (Stalled(s) /\ readOp'[s] # "destroyed") =>
                /\ outgoingMessages'[s] = outgoingMessages[s]
                /\ writes'[s] = <<>>
                /\ wire'[s] = wire[s]
                /\ s \notin participants']_vars

\* A write failed on a Session whose read still completes: it has received
\* a header since, and the failed frame is still at the front of its queue.
WriteErrorStallsWitness ==
    \E s \in Sessions :
        /\ Stalled(s)
        /\ s \notin participants
        /\ readOp[s] = "body"
        /\ wire[s] = <<>>

JoinsOnlyAtStart ==
    [][\A s \in Sessions :
          /\ (s \notin participants /\ s \in participants') => StartStep(s)
          /\ (readOp[s] # "unborn" /\ s \notin participants) =>
                s \notin participants'
          /\ readOp[s] # "unborn" => readOp'[s] # "unborn"]_vars

\* A Session that left the Room on a write error completed a body read
\* afterwards, which was broadcast to the member left, and is still no
\* member.
JoinsOnlyAtStartWitness ==
    \E s \in Sessions, p \in participants :
        /\ s \notin participants
        /\ Stalled(s)
        /\ readOp[s] = "header"
        /\ broadcastLog # <<>>
        /\ incomingMessage[s] = Last(broadcastLog)
        /\ outgoingMessages[p] # <<>>
        /\ Last(Delivered(p)) = Last(broadcastLog)

\* C38: a deliver lengthens the queue of every member other than the sender
\* by one, the new frame at the back and no frame dropped, whatever the
\* length of the queue and although its write is in flight; a join
\* lengthens the queue of the newcomer by the whole history.
QueueUnbounded ==
    [][/\ Called("deliver") =>
             \A p \in participants \ {calls'[Len(calls')].p} :
                 /\ Len(outgoingMessages'[p]) = Len(outgoingMessages[p]) + 1
                 /\ IsPrefix(outgoingMessages[p], outgoingMessages'[p])
                 /\ Last(outgoingMessages'[p]) = Last(broadcastLog')
                 /\ writes[p] # <<>> => writes'[p] = writes[p]
       /\ Called("join") =>
             LET p == calls'[Len(calls')].p
             IN /\ Len(outgoingMessages'[p]) =
                      Len(outgoingMessages[p]) + Len(MessageQueue)
                /\ IsPrefix(outgoingMessages[p], outgoingMessages'[p])]_vars

\* A member whose first write is still in flight holds more frames than
\* the history can: the replay of a full history and a later broadcast.
QueueUnboundedWitness ==
    \E p \in participants :
        /\ Len(outgoingMessages[p]) > HistoryLimit
        /\ writes[p] = <<Head(outgoingMessages[p])>>
        /\ LastCall.op = "deliver"
        /\ Last(outgoingMessages[p]) = Last(broadcastLog)

====
